---- MODULE Spec2Model ----
(***************************************************************************)
(* Match-batch store and pattern fingerprint engine of the serverless API  *)
(* netlify/functions/api.js: the POST handler (ingestion, upsert under a   *)
(* derived id), the GET handler (pattern scan over the league's corpus)    *)
(* and getFingerprints.                                                    *)
(*                                                                         *)
(* JavaScript strings are sequences of UTF-16 code units (naturals):       *)
(* "A" is <<65>>, "a" is <<97>>, "v" is <<118>>, ":" is <<58>>,            *)
(* "-" is <<45>>, "|" is <<124>>, " " is <<32>>, "0".."9" are 48..57.      *)
(* Timestamps (lastUpdated, serverTime, deviceTime) are not modelled.      *)
(***************************************************************************)
EXTENDS Integers, Sequences, FiniteSets

\* Longest match list a request submits.
MaxLen == 2

(***************************************************************************)
(* JavaScript values and string methods                                    *)
(***************************************************************************)
Str(s) == [t |-> "string", s |-> s, n |-> 0]
Num(n) == [t |-> "number", s |-> <<>>, n |-> n]
NaN == [t |-> "NaN", s |-> <<>>, n |-> 0]
Undefined == [t |-> "undefined", s |-> <<>>, n |-> 0]

\* An array-valued property that may be absent.
Arr(a) == [def |-> TRUE, a |-> a]
NoArr == [def |-> FALSE, a |-> <<>>]

Truthy(v) ==
    CASE v.t = "string" -> v.s # <<>>
      [] v.t = "number" -> v.n # 0
      [] OTHER -> FALSE

\* a || b
Or(a, b) == IF Truthy(a) THEN a ELSE b

\* A comparison that undefined never satisfies.
StrictEqDefined(a, b) == a.t \notin {"NaN", "undefined"} /\ a = b

StrictEq(a, b) == a.t # "NaN" /\ a = b

RECURSIVE Digits(_)
Digits(n) == IF n < 10 THEN <<48 + n>> ELSE Digits(n \div 10) \o <<48 + (n % 10)>>

NumberToString(n) == IF n < 0 THEN <<45>> \o Digits(-n) ELSE Digits(n)

\* String(v), as in a template literal `${v}`
String(v) ==
    CASE v.t = "string" -> v.s
      [] v.t = "number" -> NumberToString(v.n)
      [] v.t = "NaN" -> <<78, 97, 78>>
      [] OTHER -> <<117, 110, 100, 101, 102, 105, 110, 101, 100>>

\* v.toString() throws a TypeError on undefined
HasToString(v) == v.t # "undefined"

toLowerCase(s) ==
    [i \in 1..Len(s) |-> IF s[i] >= 65 /\ s[i] <= 90 THEN s[i] + 32 ELSE s[i]]

toUpperCase(s) ==
    [i \in 1..Len(s) |-> IF s[i] >= 97 /\ s[i] <= 122 THEN s[i] - 32 ELSE s[i]]

IsSpace(c) == c \in {9, 10, 11, 12, 13, 32}

RECURSIVE trimStart(_)
trimStart(s) == IF s # <<>> /\ IsSpace(Head(s)) THEN trimStart(Tail(s)) ELSE s

RECURSIVE trimEnd(_)
trimEnd(s) ==
    IF s # <<>> /\ IsSpace(s[Len(s)]) THEN trimEnd(SubSeq(s, 1, Len(s) - 1)) ELSE s

trim(s) == trimEnd(trimStart(s))

IsDigit(c) == c >= 48 /\ c <= 57

RECURSIVE DigitPrefix(_)
DigitPrefix(s) ==
    IF s # <<>> /\ IsDigit(Head(s)) THEN <<Head(s)>> \o DigitPrefix(Tail(s)) ELSE <<>>

RECURSIVE DigitsValue(_)
DigitsValue(d) ==
    IF d = <<>> THEN 0 ELSE 10 * DigitsValue(SubSeq(d, 1, Len(d) - 1)) + (d[Len(d)] - 48)

\* parseInt(v), radix 10 (no "0x" prefix among the modelled inputs)
parseInt(v) ==
    LET t == trimStart(String(v))
        neg == t # <<>> /\ Head(t) = 45
        u == IF t # <<>> /\ Head(t) \in {43, 45} THEN Tail(t) ELSE t
        d == DigitPrefix(u)
    IN  IF d = <<>> THEN NaN
        ELSE Num(IF neg THEN 0 - DigitsValue(d) ELSE DigitsValue(d))

\* Comparison of two strings by code units, as Array.prototype.sort() without a
\* comparator and as the store's simple binary string ordering do.
RECURSIVE StrLess(_, _)
StrLess(a, b) ==
    IF b = <<>> THEN FALSE
    ELSE IF a = <<>> THEN TRUE
    ELSE IF Head(a) # Head(b) THEN Head(a) < Head(b)
    ELSE StrLess(Tail(a), Tail(b))

RECURSIVE Insert(_, _)
Insert(x, sorted) ==
    IF sorted = <<>> THEN <<x>>
    ELSE IF StrLess(Head(sorted), x) THEN <<Head(sorted)>> \o Insert(x, Tail(sorted))
    ELSE <<x>> \o sorted

\* strings.sort()
RECURSIVE sort(_)
sort(strings) == IF strings = <<>> THEN <<>> ELSE Insert(Head(strings), sort(Tail(strings)))

\* strings.join(sep)
RECURSIVE join(_, _)
join(strings, sep) ==
    IF strings = <<>> THEN <<>>
    ELSE IF Len(strings) = 1 THEN strings[1]
    ELSE strings[1] \o sep \o join(Tail(strings), sep)

\* array.map(f)
Map(f(_), a) == [i \in 1..Len(a) |-> f(a[i])]

(***************************************************************************)
(* Pattern fingerprinting                                                  *)
(***************************************************************************)
\* const clean = (t) => (t || "").toString().trim().toLowerCase();
clean(t) == toLowerCase(trim(t))

\* `${clean(m.homeTeam)}:${m.homeScore}-${m.awayScore}:${clean(m.awayTeam)}`
ExactToken(m) ==
    clean(m.homeTeam) \o <<58>> \o NumberToString(m.homeScore) \o <<45>>
        \o NumberToString(m.awayScore) \o <<58>> \o clean(m.awayTeam)

\* `${m.homeScore}-${m.awayScore}`
ScoreToken(m) == NumberToString(m.homeScore) \o <<45>> \o NumberToString(m.awayScore)

\* A pairing token that keeps home before away instead of sorting the pair.
TeamTokenOrdered(m) == join(<<clean(m.homeTeam), clean(m.awayTeam)>>, <<118>>)

\* [clean(m.homeTeam), clean(m.awayTeam)].sort().join('v')
TeamToken(m) == join(sort(<<clean(m.homeTeam), clean(m.awayTeam)>>), <<118>>)

\* A fingerprint set whose scrambled string keeps the tokens in list order.
getFingerprintsUnsorted(matches) ==
    IF matches = <<>> THEN [k \in {} |-> Undefined]
    ELSE [exact |-> Str(join(Map(ExactToken, matches), <<124>>)),
          scrambled |-> Str(join(Map(ExactToken, matches), <<124>>)),
          scores |-> Str(join(Map(ScoreToken, matches), <<124>>)),
          teams |-> Str(join(sort(Map(TeamToken, matches)), <<124>>))]

\* The fingerprint object: {} for an empty or missing match list, else the four
\* strings exact, scrambled, scores, teams.
getFingerprints(matches) ==
    IF matches = <<>> THEN [k \in {} |-> Undefined]
    ELSE [exact |-> Str(join(Map(ExactToken, matches), <<124>>)),
          scrambled |-> Str(join(sort(Map(ExactToken, matches)), <<124>>)),
          scores |-> Str(join(Map(ScoreToken, matches), <<124>>)),
          teams |-> Str(join(sort(Map(TeamToken, matches)), <<124>>))]

\* obj.key: undefined when the object has no such property
Prop(obj, key) == IF key \in DOMAIN obj THEN obj[key] ELSE Undefined

(***************************************************************************)
(* The document store: a set of documents, each in one collection and      *)
(* unique there by _id.  Strings are stored as code-unit sequences, scores *)
(* as integers.                                                            *)
(***************************************************************************)
VARIABLES
    store,  \* the documents of every collection
    req,    \* the request being answered
    res,    \* the response sent for it
    called, \* whether connectToDatabase was called to answer it
    flight  \* the ingestions being handled at the same time, each at one of its awaits

vars == <<store, req, res, called, flight>>

\* "_matches"
MatchesSuffix == <<95, 109, 97, 116, 99, 104, 101, 115>>

\* return `${(league || "matches").toLowerCase().trim()}_matches`;
getCollectionName(league) ==
    trim(toLowerCase(String(Or(league, Str(<<109, 97, 116, 99, 104, 101, 115>>)))))
        \o MatchesSuffix

\* A $set of every field of `fields` on document `old`.
SetFields(old, fields) ==
    [k \in DOMAIN old \cup DOMAIN fields |-> IF k \in DOMAIN fields THEN fields[k] ELSE old[k]]

\* A write that inserts a document whether or not the id is stored.
insertOne(docs, coll, id, fields) ==
    docs \cup {SetFields([coll |-> coll, _id |-> id], fields)}

\* A write that inserts a document when the id is not stored and otherwise
\* leaves the stored document as it is.
insertIfAbsent(docs, coll, id, fields) ==
    IF \E d \in docs : d.coll = coll /\ d._id = id THEN docs
    ELSE docs \cup {SetFields([coll |-> coll, _id |-> id], fields)}

\* collection.updateOne({ _id: id }, { $set: fields }, { upsert: true })
updateOne(docs, coll, id, fields) ==
    LET hit == {d \in docs : d.coll = coll /\ d._id = id}
    IN  IF hit = {} THEN docs \cup {SetFields([coll |-> coll, _id |-> id], fields)}
        ELSE (docs \ hit) \cup {SetFields(d, fields) : d \in hit}

\* result.upsertedCount > 0: the update matched no document and inserted one
upserted(docs, coll, id) == ~\E d \in docs : d.coll = coll /\ d._id = id

\* The documents of one collection.
Collection(docs, coll) == {d \in docs : d.coll = coll}

\* All orders of a finite set of documents.
Orders(S) ==
    {f \in [1..Cardinality(S) -> S] : \A i, j \in 1..Cardinality(S) : i # j => f[i] # f[j]}

StrGeq(a, b) == ~StrLess(a, b)

\* .sort({ season: -1, trn: -1, week: -1 }): descending by season, then trn,
\* then week; documents equal on all three come in any order.
SortKeyGeq(a, b) ==
    IF a.season # b.season THEN StrGeq(a.season, b.season)
    ELSE IF a.trn # b.trn THEN StrGeq(a.trn, b.trn)
    ELSE StrGeq(a.week, b.week)

SortedBySeasonTrnWeek(S) ==
    {f \in Orders(S) : \A i \in 1..(Cardinality(S) - 1) : SortKeyGeq(f[i], f[i + 1])}

\* .sort({ season: -1 })
SortedBySeason(S) ==
    {f \in Orders(S) : \A i \in 1..(Cardinality(S) - 1) : StrGeq(f[i].season, f[i + 1].season)}

\* .limit(50) of the matchup history
HistoryLimit == 50

\* .limit(100) of the fallback list
ListLimit == 100

\* cursor.limit(n)
limit(a, n) == SubSeq(a, 1, IF Len(a) < n THEN Len(a) ELSE n)

(***************************************************************************)
(* Requests and responses                                                  *)
(***************************************************************************)
NoBody ==
    [league |-> Undefined, season |-> Undefined, trn |-> Undefined, week |-> Undefined,
     matches |-> NoArr, allMatches |-> NoArr]

NoQuery ==
    [league |-> Undefined, season |-> Undefined, trn |-> Undefined, week |-> Undefined,
     homeTeam |-> Undefined, awayTeam |-> Undefined]

NoRequest == [op |-> "none", rev |-> 0, body |-> NoBody, query |-> NoQuery]

NoResponse ==
    [status |-> 0, kind |-> "none", id |-> <<>>, action |-> "", main |-> <<>>,
     alerts |-> <<>>, list |-> <<>>]

\* res.status(code).json({ error: ... })
Error(code) == [NoResponse EXCEPT !.status = code, !.kind = "error"]

\* res.status(200).json({ success: true, id: customId })
Saved(id) == [NoResponse EXCEPT !.status = 200, !.kind = "saved", !.id = id]

\* res.status(200).json({ success: true, id: customId,
\*     action: result.upsertedCount > 0 ? "created" : "updated" })
SavedAs(id, inserted) ==
    [Saved(id) EXCEPT !.action = IF inserted THEN "created" ELSE "updated"]

\* res.status(200).json(list)
Listed(kind, list) == [NoResponse EXCEPT !.status = 200, !.kind = kind, !.list = list]

\* res.status(200).json({ main: requested, alerts: alerts })
Scanned(requested, alerts) ==
    [NoResponse EXCEPT !.status = 200, !.kind = "scan", !.main = <<requested>>,
                       !.alerts = alerts]

(***************************************************************************)
(* POST /api/api: ingestion                                                *)
(***************************************************************************)
\* "N/A"
NotAvailable == Str(<<78, 47, 65>>)

\* "UNKNOWN"
Unknown == Str(<<85, 78, 75, 78, 79, 87, 78>>)

\* parseInt(x) || 0
ParseIntOrZero(x) == LET p == parseInt(x) IN IF Truthy(p) THEN p.n ELSE 0

\* isNaN(parseInt(x)) ? 0 : parseInt(x)
ParseIntNaNZero(x) == LET p == parseInt(x) IN IF p.t = "NaN" THEN 0 ELSE p.n

\* The match record the first revision stores.
sanitized(m) ==
    [homeTeam |-> trim(toUpperCase(String(Or(Or(m.homeTeam, m.home), NotAvailable)))),
     awayTeam |-> trim(toUpperCase(String(Or(Or(m.awayTeam, m.away), NotAvailable)))),
     homeScore |-> ParseIntOrZero(m.homeScore),
     awayScore |-> ParseIntOrZero(m.awayScore)]

\* The match record the second revision stores.
sanitizedMatches(m) ==
    [homeTeam |-> trim(toUpperCase(String(Or(Or(m.homeTeam, m.home), Unknown)))),
     awayTeam |->
         trim(toUpperCase(String(Or(Or(Or(m.awayTeam, m.away), m.visitor), Unknown)))),
     homeScore |-> ParseIntNaNZero(m.homeScore),
     awayScore |-> ParseIntNaNZero(m.awayScore)]

\* `${league}-${season}-${trn}-${week}`
IdOf(league, season, trn, week) ==
    league \o <<45>> \o season \o <<45>> \o trn \o <<45>> \o week

\* const customId = `${batch.league.toLowerCase()}-${batch.season}-${batch.trn}-${batch.week}`;
customId(batch) ==
    IdOf(toLowerCase(batch.league.s), String(batch.season), String(batch.trn),
         String(batch.week))

\* batch.matches || batch.allMatches
matchData(batch) == IF batch.matches.def THEN batch.matches ELSE batch.allMatches

\* The first revision's handler: the store and the response it leaves.
PostHandler(docs, batch, up) ==
    IF ~matchData(batch).def THEN [docs |-> docs, res |-> Error(400), called |-> FALSE]
    ELSE IF ~up THEN [docs |-> docs, res |-> Error(500), called |-> TRUE]
    ELSE IF batch.league.t # "string" \/ ~HasToString(batch.season)
            \/ ~HasToString(batch.trn) \/ ~HasToString(batch.week)
    THEN [docs |-> docs, res |-> Error(500), called |-> TRUE]
    ELSE [called |-> TRUE,
          docs |->
              updateOne(docs, getCollectionName(batch.league), customId(batch),
                        [league |-> toLowerCase(batch.league.s),
                         season |-> String(batch.season),
                         trn |-> String(batch.trn),
                         week |-> String(batch.week),
                         matches |-> Map(sanitized, matchData(batch).a)]),
          res |-> Saved(customId(batch))]

\* const safeSeason = (batch.season || "0").toString();
safe(v) == String(Or(v, Str(<<48>>)))

\* The second revision's id.
customIdV2(batch) ==
    IdOf(toLowerCase(batch.league.s), safe(batch.season), safe(batch.trn), safe(batch.week))

\* The second revision's handler.
PostHandlerV2(docs, batch, up) ==
    IF ~Truthy(batch.league) THEN [docs |-> docs, res |-> Error(400), called |-> FALSE]
    ELSE IF ~matchData(batch).def \/ matchData(batch).a = <<>>
    THEN [docs |-> docs, res |-> Error(400), called |-> FALSE]
    ELSE IF ~up \/ batch.league.t # "string"
    THEN [docs |-> docs, res |-> Error(500), called |-> TRUE]
    ELSE [called |-> TRUE,
          docs |->
              updateOne(docs, getCollectionName(batch.league), customIdV2(batch),
                        [league |-> toLowerCase(batch.league.s),
                         season |-> safe(batch.season),
                         trn |-> safe(batch.trn),
                         week |-> safe(batch.week),
                         matches |-> Map(sanitizedMatches, matchData(batch).a)]),
          res |->
              SavedAs(customIdV2(batch),
                      upserted(docs, getCollectionName(batch.league), customIdV2(batch)))]

(***************************************************************************)
(* GET /api/api: matchup history, pattern scan, list                       *)
(***************************************************************************)
\* .project({ _id: 1, season: 1, trn: 1, week: 1, matches: 1 })
project(d) ==
    [_id |-> d._id, season |-> d.season, trn |-> d.trn, week |-> d.week,
     matches |-> d.matches]

\* A chain that tries the teams rule before the scrambled rule.
ClassifyTeamsFirst(currentKeys, pastKeys) ==
    IF StrictEq(Prop(currentKeys, "exact"), Prop(pastKeys, "exact"))
    THEN "EXACT SEQUENCE MATCH"
    ELSE IF StrictEq(Prop(currentKeys, "teams"), Prop(pastKeys, "teams"))
    THEN "TEAM PATTERN MATCH"
    ELSE IF StrictEq(Prop(currentKeys, "scrambled"), Prop(pastKeys, "scrambled"))
    THEN "REARRANGED SEQUENCE"
    ELSE IF StrictEq(Prop(currentKeys, "scores"), Prop(pastKeys, "scores"))
    THEN "SCORE PATTERN MATCH"
    ELSE "NONE"

\* A chain without the exact rule.
ClassifyNoExact(currentKeys, pastKeys) ==
    IF StrictEq(Prop(currentKeys, "scrambled"), Prop(pastKeys, "scrambled"))
    THEN "REARRANGED SEQUENCE"
    ELSE IF StrictEq(Prop(currentKeys, "teams"), Prop(pastKeys, "teams"))
    THEN "TEAM PATTERN MATCH"
    ELSE IF StrictEq(Prop(currentKeys, "scores"), Prop(pastKeys, "scores"))
    THEN "SCORE PATTERN MATCH"
    ELSE "NONE"

\* A chain without the scores rule.
ClassifyNoScores(currentKeys, pastKeys) ==
    IF StrictEq(Prop(currentKeys, "exact"), Prop(pastKeys, "exact"))
    THEN "EXACT SEQUENCE MATCH"
    ELSE IF StrictEq(Prop(currentKeys, "scrambled"), Prop(pastKeys, "scrambled"))
    THEN "REARRANGED SEQUENCE"
    ELSE IF StrictEq(Prop(currentKeys, "teams"), Prop(pastKeys, "teams"))
    THEN "TEAM PATTERN MATCH"
    ELSE "NONE"

\* A chain whose scores rule reads a key that no fingerprint set has, so that
\* undefined is compared with undefined.
ClassifyMissingKey(currentKeys, pastKeys) ==
    IF StrictEq(Prop(currentKeys, "exact"), Prop(pastKeys, "exact"))
    THEN "EXACT SEQUENCE MATCH"
    ELSE IF StrictEq(Prop(currentKeys, "scrambled"), Prop(pastKeys, "scrambled"))
    THEN "REARRANGED SEQUENCE"
    ELSE IF StrictEq(Prop(currentKeys, "teams"), Prop(pastKeys, "teams"))
    THEN "TEAM PATTERN MATCH"
    ELSE IF StrictEq(Prop(currentKeys, "score"), Prop(pastKeys, "score"))
    THEN "SCORE PATTERN MATCH"
    ELSE "NONE"

\* The alert type for one candidate: the first satisfied rule, or "NONE".
Classify(currentKeys, pastKeys) ==
    IF StrictEq(Prop(currentKeys, "exact"), Prop(pastKeys, "exact"))
    THEN "EXACT SEQUENCE MATCH"
    ELSE IF StrictEq(Prop(currentKeys, "scrambled"), Prop(pastKeys, "scrambled"))
    THEN "REARRANGED SEQUENCE"
    ELSE IF StrictEq(Prop(currentKeys, "teams"), Prop(pastKeys, "teams"))
    THEN "TEAM PATTERN MATCH"
    ELSE IF StrictEq(Prop(currentKeys, "scores"), Prop(pastKeys, "scores"))
    THEN "SCORE PATTERN MATCH"
    ELSE "NONE"

\* A scan that skips no record.
NeverItself(past, requested) == FALSE

\* if (past._id === requested._id) return; // Skip itself
IsItself(past, requested) == past._id = requested._id

\* allRecords.forEach(past => { ... alerts.push(...) ... })
RECURSIVE forEachPast(_, _, _)
forEachPast(allRecords, requested, currentKeys) ==
    IF Len(allRecords) = 0 THEN <<>>
    ELSE LET past == Head(allRecords)
             rest == forEachPast(Tail(allRecords), requested, currentKeys)
             type == Classify(currentKeys, getFingerprints(past.matches))
         IN  IF IsItself(past, requested) \/ type = "NONE" THEN rest
             ELSE <<[type |-> type, data |-> past]>> \o rest

\* allRecords.find(r => r.season == season && r.trn == trn && r.week == week):
\* the indexes of the records that satisfy the test (the first is the one found)
Requested(allRecords, q) ==
    {i \in 1..Len(allRecords) :
        /\ allRecords[i].season = String(q.season)
        /\ allRecords[i].trn = String(q.trn)
        /\ allRecords[i].week = String(q.week)}

Min(S) == CHOOSE x \in S : \A y \in S : x <= y

\* CASE 2 for one order of the full scan.
ScanResponse(allRecords, q) ==
    IF Requested(allRecords, q) = {} THEN Error(404)
    ELSE LET requested == allRecords[Min(Requested(allRecords, q))]
         IN  Scanned(requested,
                     forEachPast(allRecords, requested, getFingerprints(requested.matches)))

\* "matches": { $elemMatch: { homeTeam: ..., awayTeam: ... } }
elemMatch(d, homeTeam, awayTeam) ==
    \E i \in 1..Len(d.matches) :
        d.matches[i].homeTeam = homeTeam /\ d.matches[i].awayTeam = awayTeam

\* The responses the first revision's handler may send.
GetHandler(docs, q, up) ==
    IF ~Truthy(q.league) THEN {Error(400)}
    ELSE IF ~up THEN {Error(500)}
    ELSE LET collection == Collection(docs, getCollectionName(q.league))
         IN  IF Truthy(q.homeTeam) /\ Truthy(q.awayTeam)
             THEN {Listed("history", limit(Map(project, f), HistoryLimit)) :
                      f \in SortedBySeason(
                          {d \in collection :
                              elemMatch(d, trim(toUpperCase(String(q.homeTeam))),
                                        trim(toUpperCase(String(q.awayTeam))))})}
             ELSE IF Truthy(q.season) /\ Truthy(q.trn) /\ Truthy(q.week)
             THEN {ScanResponse(Map(project, f), q) : f \in SortedBySeasonTrnWeek(collection)}
             ELSE {Listed("list", limit(f, ListLimit)) : f \in SortedBySeasonTrnWeek(collection)}

\* .limit(50) of the second revision's matchup history
HistoryLimitV2 == 50

\* const limitValue = (season || trn || week) ? 5000 : 1000;
FilteredLimit == 5000

UnfilteredLimit == 1000

\* .project({ "matches.$": 1, ... }): the first element that satisfies $elemMatch
FirstMatch(d, homeTeam, awayTeam) ==
    d.matches[Min({i \in 1..Len(d.matches) :
                      d.matches[i].homeTeam = homeTeam /\ d.matches[i].awayTeam = awayTeam})]

\* historicalRecords.map(doc => ({ ...doc.matches[0], season, trn, week }))
HistoryEntry(d, homeTeam, awayTeam) ==
    LET m == FirstMatch(d, homeTeam, awayTeam)
    IN  [homeTeam |-> m.homeTeam, awayTeam |-> m.awayTeam, homeScore |-> m.homeScore,
         awayScore |-> m.awayScore, season |-> d.season, trn |-> d.trn, week |-> d.week]

\* if (season) query.season = season.toString(); ... collection.find(query)
Filtered(collection, q) ==
    {d \in collection :
        /\ Truthy(q.season) => d.season = String(q.season)
        /\ Truthy(q.trn) => d.trn = String(q.trn)
        /\ Truthy(q.week) => d.week = String(q.week)}

\* The responses the second revision's handler may send (compact not asked for).
GetHandlerV2(docs, q, up) ==
    IF ~Truthy(q.league) THEN {Error(400)}
    ELSE IF ~up THEN {Error(500)}
    ELSE LET collection == Collection(docs, getCollectionName(q.league))
             hTeam == trim(toUpperCase(String(q.homeTeam)))
             aTeam == trim(toUpperCase(String(q.awayTeam)))
         IN  IF Truthy(q.homeTeam) /\ Truthy(q.awayTeam)
             THEN {Listed("history",
                          limit([i \in 1..Len(f) |-> HistoryEntry(f[i], hTeam, aTeam)],
                                HistoryLimitV2)) :
                      f \in SortedBySeason({d \in collection : elemMatch(d, hTeam, aTeam)})}
             ELSE {Listed("list",
                          limit(f, IF Truthy(q.season) \/ Truthy(q.trn) \/ Truthy(q.week)
                                   THEN FilteredLimit ELSE UnfilteredLimit)) :
                      f \in SortedBySeasonTrnWeek(Filtered(collection, q))}

(***************************************************************************)
(* Inputs                                                                  *)
(***************************************************************************)
Raw(homeTeam, home, awayTeam, away, visitor, homeScore, awayScore) ==
    [homeTeam |-> homeTeam, home |-> home, awayTeam |-> awayTeam, away |-> away,
     visitor |-> visitor, homeScore |-> homeScore, awayScore |-> awayScore]

\* { homeTeam: "a", awayTeam: "b ", homeScore: 1, awayScore: 0 }
RawAB ==
    Raw(Str(<<97>>), Undefined, Str(<<98, 32>>), Undefined, Undefined, Num(1), Num(0))

\* { home: "B", away: "A", homeScore: "1", awayScore: "0" }
RawBA ==
    Raw(Undefined, Str(<<66>>), Undefined, Str(<<65>>), Undefined, Str(<<49>>), Str(<<48>>))

\* { homeTeam: "A", awayTeam: "A", homeScore: 1, awayScore: "x" }
RawAA ==
    Raw(Str(<<65>>), Undefined, Str(<<65>>), Undefined, Undefined, Num(1), Str(<<120>>))

\* { homeTeam: "A", awayTeam: "VB", homeScore: 0, awayScore: 0 }
RawAVB ==
    Raw(Str(<<65>>), Undefined, Str(<<86, 66>>), Undefined, Undefined, Num(0), Num(0))

\* { homeTeam: "AV", awayTeam: "B", homeScore: 2, awayScore: 2 }
RawAVxB ==
    Raw(Str(<<65, 86>>), Undefined, Str(<<66>>), Undefined, Undefined, Num(2), Num(2))

\* { home: "A", visitor: "B", homeScore: 2, awayScore: 1 }
RawVisitor ==
    Raw(Undefined, Str(<<65>>), Undefined, Undefined, Str(<<66>>), Num(2), Num(1))

\* { homeTeam: " ", awayTeam: "B", homeScore: "-1", awayScore: "x" }
RawBlankNegative ==
    Raw(Str(<<32>>), Undefined, Str(<<66>>), Undefined, Undefined, Str(<<45, 49>>),
        Str(<<120>>))

\* { homeTeam: "B", awayTeam: "A|A:1-0:A", homeScore: 1, awayScore: 0 }
RawPipe ==
    Raw(Str(<<66>>), Undefined, Str(<<65, 124, 65, 58, 49, 45, 48, 58, 65>>), Undefined,
        Undefined, Num(1), Num(0))

\* The match lists of at most MaxLen records over a set of records.
ListsOver(records) == UNION {[1..n -> records] : n \in 0..MaxLen}

Batch(league, season, trn, week, matches, allMatches) ==
    [league |-> league, season |-> season, trn |-> trn, week |-> week,
     matches |-> matches, allMatches |-> allMatches]

Query(league, season, trn, week, homeTeam, awayTeam) ==
    [league |-> league, season |-> season, trn |-> trn, week |-> week,
     homeTeam |-> homeTeam, awayTeam |-> awayTeam]

\* "1", "2", "3" and "1-1"
One == Str(<<49>>)
Two == Str(<<50>>)
Three == Str(<<51>>)
OneOne == Str(<<49, 45, 49>>)

LeagueA == Str(<<97>>)
LeagueB == Str(<<98>>)

\* (season, trn, week) of the submitted batches; the last two share an id.
Keys == {<<One, One, One>>, <<OneOne, One, One>>, <<One, OneOne, One>>}

\* The ingestion requests: league "a" under each key with match lists made of
\* one record, and single requests with the other spellings ("A", numbers,
\* allMatches), another league and another season.
Batches ==
    {Batch(LeagueA, k[1], k[2], k[3], Arr(l), NoArr) : k \in Keys, l \in ListsOver({RawAB})}
    \cup {Batch(Str(<<65>>), Num(1), Num(1), Num(1), NoArr, Arr(<<RawBA>>)),
          Batch(LeagueB, One, One, One, Arr(<<RawAB>>), NoArr),
          Batch(LeagueA, Two, One, One, Arr(<<RawAA>>), NoArr),
          Batch(LeagueA, Two, One, One, Arr(<<RawAB>>), NoArr)}

Queries ==
    {Query(LeagueA, k[1], k[2], k[3], Undefined, Undefined) : k \in Keys}
    \cup {Query(LeagueA, Two, One, One, Undefined, Undefined),
          Query(LeagueB, One, One, One, Undefined, Undefined),
          Query(LeagueA, Undefined, Undefined, Undefined, Undefined, Undefined),
          Query(Undefined, One, One, One, Undefined, Undefined),
          Query(LeagueA, Undefined, Undefined, Undefined, Str(<<97>>), Str(<<32, 98>>))}

(***************************************************************************)
(* The state machine                                                       *)
(***************************************************************************)
Init ==
    store = {} /\ req = NoRequest /\ res = NoResponse /\ called = FALSE /\ flight = <<>>

\* A POST of one of the batches `batches`, answered by the first revision.
PostOf(batches) ==
    \E batch \in batches, up \in BOOLEAN :
        \E done \in {PostHandler(store, batch, up)} :
            /\ req' = [op |-> "POST", rev |-> 1, body |-> batch, query |-> NoQuery]
            /\ store' = done.docs
            /\ res' = done.res
            /\ called' = done.called
            /\ UNCHANGED flight

Post == PostOf(Batches)

\* A POST of one of the batches `batches`, answered by the second revision.
PostV2Of(batches) ==
    \E batch \in batches, up \in BOOLEAN :
        \E done \in {PostHandlerV2(store, batch, up)} :
            /\ req' = [op |-> "POST", rev |-> 2, body |-> batch, query |-> NoQuery]
            /\ store' = done.docs
            /\ res' = done.res
            /\ called' = done.called
            /\ UNCHANGED flight

PostV2 == PostV2Of(Batches)

\* A GET of one of the queries `queries`, answered by the first revision.
GetOf(queries) ==
    \E q \in queries, up \in BOOLEAN :
        /\ req' = [op |-> "GET", rev |-> 1, body |-> NoBody, query |-> q]
        /\ res' \in GetHandler(store, q, up)
        /\ called' = Truthy(q.league)
        /\ UNCHANGED <<store, flight>>

Get == GetOf(Queries)

Next == Post \/ PostV2 \/ Get

Spec == Init /\ [][Next]_vars

\* The records of the first batch of a scanned league, and those of the second.
ScanRecords == {RawAB, RawBA, RawAA, RawAVB, RawAVxB}

SecondRecords == {RawAB, RawBA, RawAVxB}

\* The match list of the third batch.
ThirdList == <<RawBA, RawAB>>

\* The store after an accepted ingestion by the first revision.
Ingested(docs, week, list) ==
    PostHandler(docs, Batch(LeagueA, One, One, week, Arr(list), NoArr), TRUE).docs

InitScan ==
    /\ \E l1 \in ListsOver(ScanRecords), l2 \in ListsOver(SecondRecords) :
           store = Ingested(Ingested(Ingested({}, One, l1), Two, l2), Three, ThirdList)
    /\ req = NoRequest
    /\ res = NoResponse
    /\ called = FALSE
    /\ flight = <<>>

ScanQueries == {Query(LeagueA, One, One, w, Undefined, Undefined) : w \in {One, Two, Three}}

ScanGet == GetOf(ScanQueries)

NextScan == ScanGet

SpecScan == InitScan /\ [][NextScan]_vars

(***************************************************************************)
(* Both revisions of both routes, over requests in every accepted spelling *)
(* and requests that are to be refused.                                    *)
(***************************************************************************)
\* A GET of one of the queries `queries`, answered by the second revision.
GetV2Of(queries) ==
    \E q \in queries, up \in BOOLEAN :
        /\ req' = [op |-> "GET", rev |-> 2, body |-> NoBody, query |-> q]
        /\ res' \in GetHandlerV2(store, q, up)
        /\ called' = Truthy(q.league)
        /\ UNCHANGED <<store, flight>>

\* "9" and "10"
Nine == Str(<<57>>)
Ten == Str(<<49, 48>>)

\* Ingestion requests for season 1, trn 1, week 1 of league "a": the visitor
\* spelling, allMatches with home / away and numbers, an empty list, no league
\* and no match list, a blank name and a negative score; and requests for
\* weeks 9 and 10.
Submissions ==
    {Batch(LeagueA, One, One, One, Arr(<<RawVisitor>>), NoArr),
     Batch(Str(<<65>>), Num(1), Num(1), Num(1), NoArr, Arr(<<RawBA>>)),
     Batch(LeagueA, One, One, One, Arr(<<>>), NoArr),
     Batch(Undefined, One, One, One, Arr(<<RawAB>>), NoArr),
     Batch(LeagueA, One, One, One, NoArr, NoArr),
     Batch(LeagueA, One, One, One, Arr(<<RawBlankNegative>>), NoArr),
     Batch(LeagueA, One, One, Nine, Arr(<<RawAA, RawAB>>), NoArr),
     Batch(LeagueA, One, One, Ten, Arr(<<RawAB>>), NoArr)}

Lookups ==
    {Query(LeagueA, One, One, One, Undefined, Undefined),
     Query(LeagueA, Two, One, One, Undefined, Undefined),
     Query(LeagueA, Undefined, Undefined, Undefined, Undefined, Undefined),
     Query(Undefined, One, One, One, Undefined, Undefined),
     Query(LeagueA, Undefined, Undefined, Undefined, Str(<<97>>), Str(<<32, 98>>))}

Submit == PostOf(Submissions)

SubmitV2 == PostV2Of(Submissions)

Lookup == GetOf(Lookups)

LookupV2 == GetV2Of(Lookups)

NextApi == Submit \/ SubmitV2 \/ Lookup \/ LookupV2

SpecApi == Init /\ [][NextApi]_vars

(***************************************************************************)
(* What a finished pattern scan shows                                      *)
(***************************************************************************)
ScanDone == res.kind = "scan"

\* The requested batch of the scan.
Main == res.main[1]

\* The stored batches of the league the scan was asked for.
Corpus == Collection(store, getCollectionName(req.query.league))

\* The other batches of the league, as the scan reads them.
Candidates == {project(d) : d \in {c \in Corpus : c._id # Main._id}}

\* The types of the alerts that reference batch d.
TypesOf(d) == {res.alerts[i].type : i \in {j \in 1..Len(res.alerts) : res.alerts[j].data = d}}

AlertCount(d) == Cardinality({j \in 1..Len(res.alerts) : res.alerts[j].data = d})

SameKey(key, m1, m2) ==
    StrictEq(Prop(getFingerprints(m1), key), Prop(getFingerprints(m2), key))

\* The first rule of the precedence chain that two match lists satisfy.
FirstRule(m1, m2) ==
    IF SameKey("exact", m1, m2) THEN "EXACT SEQUENCE MATCH"
    ELSE IF SameKey("scrambled", m1, m2) THEN "REARRANGED SEQUENCE"
    ELSE IF SameKey("teams", m1, m2) THEN "TEAM PATTERN MATCH"
    ELSE IF SameKey("scores", m1, m2) THEN "SCORE PATTERN MATCH"
    ELSE "NONE"

\* b lists the elements of a in some order.
IsPerm(a, b) ==
    /\ Len(a) = Len(b)
    /\ \E p \in [1..Len(a) -> 1..Len(a)] :
           /\ \A i, j \in 1..Len(a) : i # j => p[i] # p[j]
           /\ \A i \in 1..Len(a) : b[i] = a[p[i]]

\* b lists the elements of a in an order given by a permutation that moves
\* at least one position.
IsRearranged(a, b) ==
    /\ Len(a) = Len(b)
    /\ \E p \in [1..Len(a) -> 1..Len(a)] :
           /\ \A i, j \in 1..Len(a) : i # j => p[i] # p[j]
           /\ \E i \in 1..Len(a) : p[i] # i
           /\ \A i \in 1..Len(a) : b[i] = a[p[i]]

\* C1: in a pattern scan every candidate batch yields at most one alert, of the
\* first rule satisfied in the order exact, scrambled, teams, scores (none when
\* no rule is satisfied); alerts reference candidates only and come in corpus
\* order (season, trn, week descending), one per matching candidate.
C1_FirstRuleWins ==
    ScanDone =>
        /\ \A d \in Candidates :
               /\ AlertCount(d) = IF FirstRule(Main.matches, d.matches) = "NONE" THEN 0 ELSE 1
               /\ TypesOf(d) \subseteq {FirstRule(Main.matches, d.matches)}
        /\ \A i \in 1..Len(res.alerts) : res.alerts[i].data \in Candidates
        /\ \A i, j \in 1..Len(res.alerts) :
               i < j => /\ res.alerts[i].data # res.alerts[j].data
                        /\ SortKeyGeq(res.alerts[i].data, res.alerts[j].data)

\* A scan with two alerts of different types, the first for the later week.
C1_Witness ==
    /\ ScanDone
    /\ Len(res.alerts) = 2
    /\ res.alerts[1].type = "REARRANGED SEQUENCE"
    /\ res.alerts[2].type = "TEAM PATTERN MATCH"
    /\ res.alerts[1].data.week = Three.s
    /\ res.alerts[2].data.week = Two.s

\* C2: a candidate batch with another id whose non-empty match list equals the
\* requested batch's in content and order gets an EXACT SEQUENCE MATCH alert.
C2_SelfExact ==
    ScanDone =>
        \A d \in Candidates :
            (d.matches = Main.matches /\ d.matches # <<>>) =>
                TypesOf(d) = {"EXACT SEQUENCE MATCH"}

C2_Witness ==
    /\ ScanDone
    /\ \E d \in Candidates :
           /\ d.matches = Main.matches
           /\ Len(d.matches) = 2
           /\ d.matches[1] # d.matches[2]
           /\ TypesOf(d) = {"EXACT SEQUENCE MATCH"}

Swap(m) ==
    [homeTeam |-> m.awayTeam, awayTeam |-> m.homeTeam, homeScore |-> m.homeScore,
     awayScore |-> m.awayScore]

\* The string holds no ":".
NoColon(s) == \A i \in 1..Len(s) : s[i] # 58

\* Every record of the non-empty list is a match between two different teams.
TwoSided(matches) ==
    /\ matches # <<>>
    /\ \A i \in 1..Len(matches) : clean(matches[i].homeTeam) # clean(matches[i].awayTeam)

\* C4 as stated (here for lists of matches between two different teams): a
\* candidate whose match list is the requested batch's with home and away
\* exchanged in every record has the same teams fingerprint and never gets
\* EXACT SEQUENCE MATCH or REARRANGED SEQUENCE.
C4_Original ==
    ScanDone =>
        \A d \in Candidates :
            (d.matches = Map(Swap, Main.matches) /\ TwoSided(d.matches)) =>
                /\ SameKey("teams", Main.matches, d.matches)
                /\ TypesOf(d) \cap {"EXACT SEQUENCE MATCH", "REARRANGED SEQUENCE"} = {}

\* C4 as amended: such a candidate has the same teams fingerprint and always
\* gets one alert, EXACT SEQUENCE MATCH, REARRANGED SEQUENCE or TEAM PATTERN
\* MATCH; it is TEAM PATTERN MATCH exactly when the exact and the scrambled
\* fingerprints both differ, as for one match between two different teams whose
\* names hold no ":".
C4_SwapSides ==
    ScanDone =>
        \A d \in Candidates :
            d.matches = Map(Swap, Main.matches) =>
                /\ SameKey("teams", Main.matches, d.matches)
                /\ AlertCount(d) = 1
                /\ TypesOf(d) \subseteq
                       {"EXACT SEQUENCE MATCH", "REARRANGED SEQUENCE", "TEAM PATTERN MATCH"}
                /\ TypesOf(d) = {"TEAM PATTERN MATCH"} <=>
                       /\ ~SameKey("exact", Main.matches, d.matches)
                       /\ ~SameKey("scrambled", Main.matches, d.matches)
                /\ (/\ Len(d.matches) = 1
                    /\ clean(d.matches[1].homeTeam) # clean(d.matches[1].awayTeam)
                    /\ NoColon(d.matches[1].homeTeam)
                    /\ NoColon(d.matches[1].awayTeam)) =>
                       TypesOf(d) = {"TEAM PATTERN MATCH"}

\* One match with the sides exchanged, reported as a team pattern.
C4_Witness ==
    /\ ScanDone
    /\ \E d \in Candidates :
           /\ d.matches = Map(Swap, Main.matches)
           /\ Len(d.matches) = 1
           /\ d.matches[1].homeTeam # d.matches[1].awayTeam
           /\ TypesOf(d) = {"TEAM PATTERN MATCH"}

PairingOf(m) == {clean(m.homeTeam), clean(m.awayTeam)}

RecordOf(m) == <<clean(m.homeTeam), m.homeScore, m.awayScore, clean(m.awayTeam)>>

\* C6 as stated: a TEAM PATTERN MATCH alert references a candidate with the same
\* multiset of unordered pairings as the requested batch, an EXACT SEQUENCE MATCH
\* or REARRANGED SEQUENCE alert one with the same multiset of records.
C6_Original ==
    ScanDone =>
        \A i \in 1..Len(res.alerts) :
            /\ res.alerts[i].type = "TEAM PATTERN MATCH" =>
                   IsPerm(Map(PairingOf, Main.matches), Map(PairingOf, res.alerts[i].data.matches))
            /\ res.alerts[i].type \in {"EXACT SEQUENCE MATCH", "REARRANGED SEQUENCE"} =>
                   IsPerm(Map(RecordOf, Main.matches), Map(RecordOf, res.alerts[i].data.matches))

\* C7: when exactly one of the requested batch and a candidate has an empty
\* match list, no alert references that candidate.
C7_EmptyNeverMatches ==
    ScanDone =>
        \A d \in Candidates :
            ((d.matches = <<>>) # (Main.matches = <<>>)) => AlertCount(d) = 0

\* An empty requested batch scanned against a non-empty candidate, and a non-empty
\* one against an empty candidate.
C7_Witness ==
    /\ ScanDone
    /\ Main.matches = <<>>
    /\ \E d \in Candidates : d.matches # <<>> /\ AlertCount(d) = 0

\* C8: no alert of a pattern scan references the requested batch; the requested
\* batch is a stored batch of the league asked for, and the alerts reference
\* exactly the other stored batches of that league that satisfy a rule.
C8_NoSelfAlert ==
    ScanDone =>
        /\ Main \in {project(d) : d \in Corpus}
        /\ \A i \in 1..Len(res.alerts) : res.alerts[i].data._id # Main._id
        /\ {res.alerts[i].data : i \in 1..Len(res.alerts)} =
               {project(d) :
                   d \in {c \in Corpus :
                             /\ c._id # Main._id
                             /\ FirstRule(Main.matches, c.matches) # "NONE"}}

\* A scan of a league with three stored batches, two of them reported, while
\* another league holds a batch with the same content.
C8_Witness ==
    /\ ScanDone
    /\ Cardinality(Corpus) = 3
    /\ Len(res.alerts) = 2
    /\ \E d \in store \ Corpus : d.matches = Main.matches

\* The (league, season, tournament, week) of a stored document.
Tuple(d) == <<d.league, d.season, d.trn, d.week>>

Accepted == req.op = "POST" /\ res.kind = "saved"

\* The normalized tuple and match list of the ingestion request.
NormalTuple(r) ==
    IF r.rev = 1
    THEN <<toLowerCase(r.body.league.s), String(r.body.season), String(r.body.trn),
           String(r.body.week)>>
    ELSE <<toLowerCase(r.body.league.s), safe(r.body.season), safe(r.body.trn),
           safe(r.body.week)>>

NormalMatches(r) ==
    IF r.rev = 1 THEN Map(sanitized, matchData(r.body).a)
    ELSE Map(sanitizedMatches, matchData(r.body).a)

\* C9: after an accepted ingestion the store holds at most one document per
\* (league, season, tournament, week); the document of the submitted tuple holds
\* the submission's normalized match list, whatever was stored before; documents
\* of other tuples are not modified; re-submitting what is stored changes
\* nothing; and no other step changes the store.
C9_Upsert ==
    [][IF Accepted'
       THEN /\ \A d1, d2 \in store' : Tuple(d1) = Tuple(d2) => d1 = d2
            /\ \E d \in store' : Tuple(d) = NormalTuple(req') /\ d.matches = NormalMatches(req')
            /\ \A d \in store' : Tuple(d) # NormalTuple(req') => d \in store
            /\ (\E d \in store : Tuple(d) = NormalTuple(req') /\ d.matches = NormalMatches(req'))
                   => store' = store
       ELSE store' = store]_vars

\* A second ingestion for a stored key, answered "updated", with its content stored.
C9_Witness ==
    /\ Accepted
    /\ res.action = "updated"
    /\ \E d \in store :
           /\ Tuple(d) = NormalTuple(req)
           /\ d.matches = NormalMatches(req)
           /\ Len(d.matches) = 2
    /\ Cardinality(store) >= 2

\* C10 as stated: ingestions of different (league, season, tournament, week)
\* never share an id, so an accepted ingestion leaves every stored document of
\* another tuple in the store.
C10_Original ==
    [][Accepted' => \A d \in store : Tuple(d) # NormalTuple(req') => d \in store']_vars

\* The ingestion request names no league, or has no or an empty match list.
Invalid(body) ==
    \/ ~Truthy(body.league)
    \/ ~matchData(body).def
    \/ matchData(body).a = <<>>

\* C11 as stated: an ingestion request with no league, or with a missing or
\* empty match list, is answered with the client error 400 without a call of
\* connectToDatabase and without a change of the store.
C11_Original ==
    [][(req'.op = "POST" /\ Invalid(req'.body)) =>
           /\ res'.kind = "error" /\ res'.status = 400
           /\ ~called'
           /\ store' = store]_vars

\* A GET that asks for one batch: season, trn and week supplied, no matchup.
AsksOneBatch ==
    /\ req.op = "GET"
    /\ Truthy(req.query.league)
    /\ Truthy(req.query.season) /\ Truthy(req.query.trn) /\ Truthy(req.query.week)
    /\ ~(Truthy(req.query.homeTeam) /\ Truthy(req.query.awayTeam))

\* The stored batches of the league asked for that have the season, trn and
\* week asked for.
Asked == Filtered(Corpus, req.query)

\* C12 as stated: a GET with season, trn and week supplied that the store can
\* answer gets 404 when the league holds no such batch, and otherwise a
\* structure with that batch as main and a list of alerts.
C12_Original ==
    (AsksOneBatch /\ res.status # 500) =>
        IF Asked = {} THEN res.kind = "error" /\ res.status = 404
        ELSE res.kind = "scan" /\ Main \in {project(d) : d \in Asked}

\* The first value supplied among the spellings of a field.
Supplied(values) ==
    IF \E i \in 1..Len(values) : Truthy(values[i])
    THEN values[Min({i \in 1..Len(values) : Truthy(values[i])})]
    ELSE Undefined

\* The record a query is to return for a submitted record: names trimmed and
\* uppercased, scores as integers (0 when not a number).
Returned(m) ==
    [homeTeam |-> trim(toUpperCase(String(Supplied(<<m.homeTeam, m.home>>)))),
     awayTeam |-> trim(toUpperCase(String(Supplied(<<m.awayTeam, m.away, m.visitor>>)))),
     homeScore |-> IF parseInt(m.homeScore).t = "number" THEN parseInt(m.homeScore).n ELSE 0,
     awayScore |-> IF parseInt(m.awayScore).t = "number" THEN parseInt(m.awayScore).n ELSE 0]

\* The batches a GET response holds.
BatchesOf(r) ==
    IF r.kind = "scan" THEN {r.main[1]}
    ELSE IF r.kind = "list" THEN {r.list[i] : i \in 1..Len(r.list)}
    ELSE {}

\* C13 as stated: a GET of the league, season, trn and week of the ingestion
\* accepted just before it returns exactly one batch, whose matches are the
\* submitted records in the same order, each with the names of the spelling
\* used, trimmed and uppercased, and integer scores.
C13_Original ==
    [][(/\ Accepted
        /\ req'.op = "GET"
        /\ Truthy(req'.query.league)
        /\ getCollectionName(req'.query.league) = getCollectionName(req.body.league)
        /\ Truthy(req'.query.season) /\ String(req'.query.season) = NormalTuple(req)[2]
        /\ Truthy(req'.query.trn) /\ String(req'.query.trn) = NormalTuple(req)[3]
        /\ Truthy(req'.query.week) /\ String(req'.query.week) = NormalTuple(req)[4]
        /\ ~(Truthy(req'.query.homeTeam) /\ Truthy(req'.query.awayTeam))
        /\ res'.status # 500) =>
           /\ Cardinality(BatchesOf(res')) = 1
           /\ \A b \in BatchesOf(res') : b.matches = Map(Returned, matchData(req.body).a)]_vars

\* The number a stored season, trn or week stands for.
NumberOf(s) == parseInt(Str(s)).n

\* Batch a is of a later or the same season, then trn, then week number as b.
LaterOrSame(a, b) ==
    IF NumberOf(a.season) # NumberOf(b.season) THEN NumberOf(a.season) > NumberOf(b.season)
    ELSE IF NumberOf(a.trn) # NumberOf(b.trn) THEN NumberOf(a.trn) > NumberOf(b.trn)
    ELSE NumberOf(a.week) >= NumberOf(b.week)

\* C14 as stated: a list response holds its batches from the highest season,
\* then trn, then week number to the lowest, the most recent batch first.
C14_Original ==
    res.kind = "list" =>
        \A i, j \in 1..Len(res.list) : i < j => LaterOrSame(res.list[i], res.list[j])

\* The match records of the stored batches.
StoredRecords == UNION {{d.matches[i] : i \in 1..Len(d.matches)} : d \in store}

\* C15 as stated: the scores of every stored match record are integers that
\* are 0 or more.
C15_Original == \A m \in StoredRecords : m.homeScore >= 0 /\ m.awayScore >= 0

\* C16 as stated: the team names of every stored match record are not empty.
C16_Original == \A m \in StoredRecords : m.homeTeam # <<>> /\ m.awayTeam # <<>>

\* The match records an entry of a matchup history carries.
RecordsOf(entry) ==
    IF "matches" \in DOMAIN entry THEN {entry.matches[i] : i \in 1..Len(entry.matches)}
    ELSE {entry}

\* The season, trn and week of an entry or a stored batch.
WhenOf(d) == <<d.season, d.trn, d.week>>

\* C17 as stated: the response to a GET with homeTeam and awayTeam has at most
\* 50 entries, one for each batch of the league that holds a record of the
\* trimmed, uppercased pair (whatever season, trn and week are), and the match
\* records of every entry are records of that pair.
C17_Original ==
    res.kind = "history" =>
        LET hTeam == trim(toUpperCase(String(req.query.homeTeam)))
            aTeam == trim(toUpperCase(String(req.query.awayTeam)))
        IN  /\ Len(res.list) <= 50
            /\ {WhenOf(res.list[i]) : i \in 1..Len(res.list)} =
                   {WhenOf(d) : d \in {c \in Corpus : elemMatch(c, hTeam, aTeam)}}
            /\ \A i \in 1..Len(res.list) :
                   \A m \in RecordsOf(res.list[i]) :
                       m.homeTeam = hTeam /\ m.awayTeam = aTeam

(***************************************************************************)
(* Ingestions handled at the same time by the first revision: a handler    *)
(* runs up to an await, other handlers run, and it goes on when the        *)
(* awaited call returns.  The store applies one updateOne at a time.       *)
(***************************************************************************)
Handlers == {"h1", "h2"}

\* A handler that handles no request.
Idle == [pc |-> "idle", batch |-> NoBody]

\* Requests for one batch with different match lists, a request with no match
\* list and a request with no season.
ConcurrentBatches ==
    {Batch(LeagueA, One, One, One, Arr(l), NoArr) : l \in ListsOver({RawBA})}
    \cup {Batch(LeagueA, One, One, One, NoArr, NoArr),
          Batch(LeagueA, Undefined, One, One, Arr(<<RawBA>>), NoArr)}

InitConcurrent ==
    /\ store = {}
    /\ req = NoRequest
    /\ res = NoResponse
    /\ called = FALSE
    /\ flight = [h \in Handlers |-> Idle]

\* The handler answers and is free again.
Answer(h, batch, response, connected) ==
    /\ req' = [op |-> "POST", rev |-> 1, body |-> batch, query |-> NoQuery]
    /\ res' = response
    /\ called' = connected
    /\ flight' = [flight EXCEPT ![h] = Idle]

\* The handler goes on to its next await.
At(h, pc) ==
    /\ flight' = [flight EXCEPT ![h].pc = pc]
    /\ UNCHANGED <<req, res, called>>

\* A request arrives: 400 without match data, else the handler connects.
Receive(h) ==
    /\ flight[h].pc = "idle"
    /\ \E batch \in ConcurrentBatches :
           /\ IF ~matchData(batch).def THEN Answer(h, batch, Error(400), FALSE)
              ELSE /\ flight' = [flight EXCEPT ![h] = [pc |-> "connecting", batch |-> batch]]
                   /\ UNCHANGED <<req, res, called>>
           /\ UNCHANGED store

\* connectToDatabase returns or throws; the handler builds the update, which
\* throws when league, season, trn or week is missing, and calls updateOne.
Connect(h) ==
    /\ flight[h].pc = "connecting"
    /\ \E up \in BOOLEAN :
           IF PostHandler(store, flight[h].batch, up).res.status = 500
           THEN Answer(h, flight[h].batch, Error(500), TRUE)
           ELSE At(h, "writing")
    /\ UNCHANGED store

\* The store applies the updateOne, or the call fails and nothing is written.
Write(h) ==
    /\ flight[h].pc = "writing"
    /\ \E ok \in BOOLEAN :
           IF ok
           THEN /\ store' = PostHandler(store, flight[h].batch, TRUE).docs
                /\ At(h, "written")
           ELSE /\ Answer(h, flight[h].batch, Error(500), TRUE)
                /\ UNCHANGED store

\* updateOne has returned: the handler answers 200.
Respond(h) ==
    /\ flight[h].pc = "written"
    /\ Answer(h, flight[h].batch, Saved(customId(flight[h].batch)), TRUE)
    /\ UNCHANGED store

NextConcurrent == \E h \in Handlers : Receive(h) \/ Connect(h) \/ Write(h) \/ Respond(h)

SpecConcurrent == InitConcurrent /\ [][NextConcurrent]_vars

\* The document that holds the normalized content of one submission and
\* nothing else.
DocOf(batch) ==
    LET r == [op |-> "POST", rev |-> 1, body |-> batch, query |-> NoQuery]
    IN  [coll |-> getCollectionName(batch.league),
         _id |-> IdOf(NormalTuple(r)[1], NormalTuple(r)[2], NormalTuple(r)[3], NormalTuple(r)[4]),
         league |-> NormalTuple(r)[1], season |-> NormalTuple(r)[2],
         trn |-> NormalTuple(r)[3], week |-> NormalTuple(r)[4],
         matches |-> NormalMatches(r)]

\* C18: while ingestions of one (league, season, trn, week) are handled at the
\* same time, a step changes the store only when the store applies the write
\* of one handler, and the document of the key is then the normalized content
\* of that handler's submission in all of its fields, so the stored document is
\* always that of the write completed last; a handler that answers with an
\* error has written nothing and its answer changes nothing.
C18_LastWriterWins ==
    [][/\ IF \E h \in Handlers : flight[h].pc = "writing" /\ flight'[h].pc = "written"
          THEN \E h \in Handlers :
                   /\ flight[h].pc = "writing" /\ flight'[h].pc = "written"
                   /\ store' = {d \in store : Tuple(d) # Tuple(DocOf(flight[h].batch))}
                                   \cup {DocOf(flight[h].batch)}
          ELSE store' = store
       /\ \A d \in store' : \E batch \in ConcurrentBatches : d = DocOf(batch)
       /\ \A h \in Handlers :
              (flight[h].pc # "idle" /\ flight'[h].pc = "idle" /\ res'.status # 200) =>
                  flight[h].pc # "written" /\ store' = store]_vars

\* Both handlers have written different match lists for the same key, and the
\* stored document is the submission of one of them.
C18_Witness ==
    /\ \A h \in Handlers : flight[h].pc = "written"
    /\ flight["h1"].batch.matches # flight["h2"].batch.matches
    /\ store = {DocOf(flight["h2"].batch)}
    /\ res.kind = "error"

(***************************************************************************)
(* The pattern scan over two batches whose team names may hold the         *)
(* characters that separate the parts of a fingerprint.                    *)
(***************************************************************************)
SeparatorRecords == {RawBA, RawAA, RawPipe}

InitSeparators ==
    /\ \E l1, l2 \in ListsOver(SeparatorRecords) :
           store = Ingested(Ingested({}, One, l1), Two, l2)
    /\ req = NoRequest
    /\ res = NoResponse
    /\ called = FALSE
    /\ flight = <<>>

SpecSeparators == InitSeparators /\ [][NextScan]_vars

\* C19 as stated: for the requested batch and every candidate, equal exact
\* fingerprints come with equal scrambled, teams and scores fingerprints, and
\* equal scrambled fingerprints with equal teams fingerprints.
C19_Original ==
    ScanDone =>
        \A d \in Candidates :
            /\ SameKey("exact", Main.matches, d.matches) =>
                   /\ SameKey("scrambled", Main.matches, d.matches)
                   /\ SameKey("teams", Main.matches, d.matches)
                   /\ SameKey("scores", Main.matches, d.matches)
            /\ SameKey("scrambled", Main.matches, d.matches) =>
                   SameKey("teams", Main.matches, d.matches)

\* C20: the fingerprint set of an empty match list has no property; in a scan
\* whose requested batch has an empty match list every candidate with an empty
\* match list gets an EXACT SEQUENCE MATCH alert; and the first revision's POST
\* stores a batch with an empty matches array that it was sent.
C20_EmptyMatchesEmpty ==
    /\ DOMAIN getFingerprints(<<>>) = {}
    /\ (ScanDone /\ Main.matches = <<>>) =>
           \A d \in Candidates : d.matches = <<>> => TypesOf(d) = {"EXACT SEQUENCE MATCH"}
    /\ (/\ req.op = "POST" /\ req.rev = 1
        /\ matchData(req.body).def /\ matchData(req.body).a = <<>>
        /\ res.status # 500) =>
           /\ res.kind = "saved"
           /\ \E d \in store : d._id = res.id /\ d.matches = <<>>

\* A scan of a batch with no matches that reports another batch with no matches.
C20_Witness ==
    /\ ScanDone
    /\ Main.matches = <<>>
    /\ \E i \in 1..Len(res.alerts) :
           /\ res.alerts[i].type = "EXACT SEQUENCE MATCH"
           /\ res.alerts[i].data.matches = <<>>
====
